---- MODULE Spec2Model ----
(***************************************************************************)
(* The four Shelly fleet scripts (shelly-restart.py, shelly-debug-setter.py*)
(* shelly-mqtt-config.py, shelly-status-check.py) as one state machine.    *)
(* `script` selects the program; each program reads the address list,      *)
(* runs its per-device loop and terminates with a process exit status.     *)
(*                                                                         *)
(* Numbers of a JSON payload are kept in tenths (JNum(-678) is -67.8), so  *)
(* that int() and float() are conversions and not the identity.            *)
(* Addresses are sequences of character codes, compared as Python compares *)
(* str: <<1,0>> is "10" and <<9>> is "9".                                  *)
(***************************************************************************)
EXTENDS Integers, Sequences, FiniteSets, TLC

VARIABLES script, file, lines, fleet, fault, sort,
          hosts, i, run, runF, runO, perm

vars == <<script, file, lines, fleet, fault, sort, hosts, i, run, runF, runO, perm>>

inputs == <<script, file, lines, fleet, fault, sort>>

(***************************************************************************)
(* Bounds and input sets                                                   *)
(***************************************************************************)
MaxLines == 3

Blank == <<>>

Hosts == { <<1, 0>>, <<9>> }

Scripts == {"restart", "debug", "mqtt", "status"}

SortKeys == {"ip", "uptime", "wifi"}

RECURSIVE SeqsUpTo(_, _)
SeqsUpTo(S, n) ==
  IF n = 0 THEN { <<>> }
  ELSE LET shorter == SeqsUpTo(S, n - 1)
       IN  shorter \cup { Append(s, e) : s \in { t \in shorter : Len(t) = n - 1 }, e \in S }

(***************************************************************************)
(* Python / JSON values                                                    *)
(***************************************************************************)
JNum(x) == [t |-> "num", x |-> x]

JStr(s) == [t |-> "str", s |-> s]

JBool(b) == [t |-> "bool", b |-> b]

JNull == [t |-> "null"]

NegInf == -1000000

Dash == JStr("-")

Check == JStr("[check]")

Cross == JStr("[cross]")

Question == JStr("[?]")

NotAvailable == JStr("n.a.")

\* dict.get(key, default)
Get(doc, key, default) == IF key \in DOMAIN doc THEN doc[key] ELSE default

\* truth value of a Python object
Truthy(v) ==
  CASE v.t = "bool" -> v.b
    [] v.t = "num"  -> v.x # 0
    [] v.t = "str"  -> v.s # ""
    [] OTHER        -> FALSE

\* int(x) / int(float(x)) of a number held in tenths: truncation toward zero
Trunc(x) == IF x >= 0 THEN x \div 10 ELSE -((-x) \div 10)

(***************************************************************************)
(* Remote call client: what requests.get / requests.post observes          *)
(***************************************************************************)
Transport == [kind |-> "transport"]

OkDoc(doc) == [kind |-> "reply", status |-> 200, body |-> [json |-> TRUE, doc |-> doc]]

ErrJson(status) ==
  [kind |-> "reply", status |-> status,
   body |-> [json |-> TRUE, doc |-> [code |-> JNum(status * 10), message |-> JStr("error")]]]

ErrText(status) == [kind |-> "reply", status |-> status, body |-> [json |-> FALSE]]

\* the CallOutcome variant of a response: Success, HttpError or TransportError
Outcome(resp) ==
  IF resp.kind = "transport" THEN "transport"
  ELSE IF resp.status >= 200 /\ resp.status < 300 THEN "ok" ELSE "http"

\* requests.get(...).json() raises: transport failure or a body that is not JSON
JsonRaises(resp) == resp.kind = "transport" \/ ~resp.body.json

Called(host, ep, resp) == [host |-> host, ep |-> ep, res |-> Outcome(resp)]

(***************************************************************************)
(* Devices: what one device answers on each endpoint                       *)
(***************************************************************************)
SysConfDoc == [device |-> [eco_mode |-> JBool(TRUE)],
               debug  |-> [udp |-> [addr |-> JStr("sink:514")]]]

SysStatusDoc(u) == [uptime |-> u, mac |-> JStr("AABBCC")]

SysStatusNoUptime == [mac |-> JStr("AABBCC")]

WifiDoc(r) == [rssi |-> r, ssid |-> JStr("net")]

WifiNoRssi == [ssid |-> JStr("net")]

BleDoc == [enable |-> JBool(TRUE)]

ScriptsDoc == [scripts |-> << [id |-> JNum(10), name |-> JStr("script1")] >>]

ScriptsNoName == [scripts |-> << [id |-> JNum(10)] >>]

MqttDoc == [enable |-> JBool(TRUE)]

Healthy ==
  [sysconf   |-> OkDoc(SysConfDoc),
   sysstatus |-> OkDoc(SysStatusDoc(JNum(900610))),
   wifi      |-> OkDoc(WifiDoc(JNum(-600))),
   ble       |-> OkDoc(BleDoc),
   scripts   |-> OkDoc(ScriptsDoc),
   mqtt      |-> OkDoc(MqttDoc),
   setconfig |-> OkDoc([restart_required |-> JBool(FALSE)]),
   mqttset   |-> OkDoc([restart_required |-> JBool(TRUE)]),
   reboot    |-> OkDoc([ok |-> JNull])]

\* answers to a POST: success, an HTTP error (JSON or plain body), no connection
PostAnswers(doc) == { OkDoc(doc), ErrJson(401), ErrText(500), Transport }

RestartDevices == { [Healthy EXCEPT !.reboot = a] : a \in PostAnswers([ok |-> JNull]) }

DebugDevices ==
  { [Healthy EXCEPT !.setconfig = a] : a \in PostAnswers([restart_required |-> JBool(FALSE)]) }

MqttDevices ==
  { [Healthy EXCEPT !.mqttset = a, !.reboot = b] :
      a \in { OkDoc([restart_required |-> JBool(TRUE)]), ErrJson(401), Transport },
      b \in { OkDoc([ok |-> JNull]), ErrText(500), Transport } }

\* status devices that differ from the healthy one in the outcome of one facet call
FacetDevices ==
  { Healthy,
    [Healthy EXCEPT !.sysconf = Transport],
    [Healthy EXCEPT !.sysconf = ErrJson(401)],
    [Healthy EXCEPT !.sysstatus = ErrText(500)],
    [Healthy EXCEPT !.wifi = Transport],
    [Healthy EXCEPT !.wifi = ErrJson(404)],
    [Healthy EXCEPT !.ble = ErrJson(404)],
    [Healthy EXCEPT !.ble = Transport],
    [Healthy EXCEPT !.scripts = ErrText(404)],
    [Healthy EXCEPT !.scripts = OkDoc(ScriptsNoName)],
    [Healthy EXCEPT !.mqtt = Transport] }

\* status devices that differ in the values the report is sorted by
SortDevices ==
  { Healthy,
    [Healthy EXCEPT !.sysconf = Transport],
    [Healthy EXCEPT !.sysstatus = OkDoc(SysStatusDoc(JNum(600)))],
    [Healthy EXCEPT !.sysstatus = OkDoc(SysStatusDoc(JNum(605)))],
    [Healthy EXCEPT !.sysstatus = OkDoc(SysStatusNoUptime)],
    [Healthy EXCEPT !.sysstatus = OkDoc(SysStatusDoc(JNull))],
    [Healthy EXCEPT !.wifi = OkDoc(WifiDoc(JNum(-672)))],
    [Healthy EXCEPT !.wifi = OkDoc(WifiDoc(JNum(-678)))],
    [Healthy EXCEPT !.wifi = OkDoc(WifiNoRssi)],
    [Healthy EXCEPT !.wifi = OkDoc(WifiDoc(JStr("weak")))] }

(***************************************************************************)
(* One run of a script                                                     *)
(***************************************************************************)
NewRun ==
  [pc |-> "read", exit_code |-> -1, table_data |-> <<>>,
   success_count |-> 0, fail_count |-> 0, calls |-> <<>>, out |-> <<>>]

\* [line.strip() for line in f if line.strip()]
ReadHosts(ls) == SelectSeq(ls, LAMBDA l : l # Blank)

\* sys.exit(code), or the interpreter ending on an uncaught exception (status 1)
Exit(r, code) == [r EXCEPT !.pc = "exit", !.exit_code = code]

\* the interpreter ends on an uncaught exception: traceback, exit status 1
Crash(r) == [r EXCEPT !.pc = "crashed", !.exit_code = 1]

Terminated(r) == r.pc \in {"exit", "crashed"}

Printed(host, tag) == [host |-> host, tag |-> tag]

(***************************************************************************)
(* shelly-restart.py                                                       *)
(***************************************************************************)
\* restart_device: (ok, msg)
restart_device(dev) ==
  IF dev.reboot.kind = "transport" THEN [ok |-> FALSE, msg |-> "exception"]
  ELSE IF dev.reboot.status = 200 THEN [ok |-> TRUE, msg |-> "Reboot triggered"]
  ELSE [ok |-> FALSE, msg |-> "HTTP"]

\* body of `for host in hosts`
RestartBody(r, host, dev) ==
  LET res == restart_device(dev)
      log == Append(r.calls, Called(host, "Shelly.Reboot", dev.reboot))
  IN  IF res.ok
      THEN [r EXCEPT !.calls = log, !.out = Append(@, Printed(host, "[OK]")),
                     !.success_count = @ + 1]
      ELSE [r EXCEPT !.calls = log, !.out = Append(@, Printed(host, "[FAIL]")),
                     !.fail_count = @ + 1]

\* variant: a single failure does not count
ExitStatusLenient(fail_count) == IF fail_count > 1 THEN 2 ELSE 0

\* the exit status after the summary
ExitStatus(fail_count) == IF fail_count > 0 THEN 2 ELSE 0

(***************************************************************************)
(* shelly-debug-setter.py                                                  *)
(***************************************************************************)
\* response.raise_for_status() raises HTTPError
RaiseForStatus(resp) == resp.status >= 400 /\ resp.status < 600

\* set_gen2_udp_debug
set_gen2_udp_debug(r, ip, dev) ==
  LET resp == dev.setconfig
      log  == Append(r.calls, Called(ip, "Sys.SetConfig", resp))
      tag  == IF resp.kind = "transport" THEN "[x] Verbindungsfehler"
              ELSE IF RaiseForStatus(resp) THEN "[x] HTTP-Fehler"
              ELSE "[v]"
  IN  [r EXCEPT !.calls = log, !.out = Append(@, Printed(ip, tag))]

(***************************************************************************)
(* shelly-mqtt-config.py                                                   *)
(***************************************************************************)
\* variant: the reboot is sent whatever the status of the config call
MqttBodyAlwaysReboot(r, host, dev) ==
  LET cfg    == Called(host, "MQTT.SetConfig", dev.mqttset)
      reboot == Called(host, "Shelly.Reboot", dev.reboot)
  IN  IF dev.mqttset.kind = "transport"
      THEN [r EXCEPT !.calls = Append(@, cfg),
                     !.out = Append(@, Printed(host, "[x] Netzwerkfehler"))]
      ELSE LET ack == Append(r.out, Printed(host, IF dev.mqttset.status = 200
                                                  THEN "[v] konfiguriert" ELSE "[x] Fehler"))
           IN  IF dev.reboot.kind = "transport"
               THEN [r EXCEPT !.calls = @ \o <<cfg, reboot>>,
                              !.out = Append(ack, Printed(host, "[x] Netzwerkfehler"))]
               ELSE IF dev.reboot.status = 200
               THEN [r EXCEPT !.calls = @ \o <<cfg, reboot>>,
                              !.out = Append(ack, Printed(host, "[v] Neustart"))]
               ELSE [r EXCEPT !.calls = @ \o <<cfg, reboot>>,
                              !.out = Append(ack, Printed(host, "[!] Neustart fehlgeschlagen"))]

\* body of `for host in shelly_hosts`
MqttBody(r, host, dev) ==
  LET cfg    == Called(host, "MQTT.SetConfig", dev.mqttset)
      reboot == Called(host, "Shelly.Reboot", dev.reboot)
  IN  IF dev.mqttset.kind = "transport"
      THEN [r EXCEPT !.calls = Append(@, cfg),
                     !.out = Append(@, Printed(host, "[x] Netzwerkfehler"))]
      ELSE IF dev.mqttset.status = 200
      THEN LET ack == Append(r.out, Printed(host, "[v] konfiguriert"))
           IN  IF dev.reboot.kind = "transport"
               THEN [r EXCEPT !.calls = @ \o <<cfg, reboot>>,
                              !.out = Append(ack, Printed(host, "[x] Netzwerkfehler"))]
               ELSE IF dev.reboot.status = 200
               THEN [r EXCEPT !.calls = @ \o <<cfg, reboot>>,
                              !.out = Append(ack, Printed(host, "[v] Neustart"))]
               ELSE [r EXCEPT !.calls = @ \o <<cfg, reboot>>,
                              !.out = Append(ack, Printed(host, "[!] Neustart fehlgeschlagen"))]
      ELSE [r EXCEPT !.calls = Append(@, cfg),
                     !.out = Append(@, Printed(host, "[x] Fehler"))]

(***************************************************************************)
(* shelly-status-check.py                                                  *)
(***************************************************************************)
StatusEndpoints ==
  << "Sys.GetConfig", "Sys.GetStatus", "WiFi.GetStatus",
     "BLE.GetConfig", "Script.List", "MQTT.GetConfig" >>

\* f"{days}d {hours}h {minutes}m", or the dash when int(float(seconds)) raises
format_uptime(seconds) ==
  LET fmt(secs) == [t |-> "dhm", d |-> secs \div 86400,
                    h |-> (secs % 86400) \div 3600, m |-> (secs % 3600) \div 60]
  IN  CASE seconds.t = "num"  -> fmt(Trunc(seconds.x))
        [] seconds.t = "bool" -> fmt(IF seconds.b THEN 1 ELSE 0)
        [] OTHER              -> Dash

\* int(value), or float('-inf') when int() raises; in tenths like every number
parse_rssi(value) ==
  CASE value.t = "num"  -> 10 * Trunc(value.x)
    [] value.t = "bool" -> IF value.b THEN 10 ELSE 0
    [] OTHER            -> NegInf

\* the row a device starts with
InitialRow(ip) ==
  [IP |-> ip, Erreichbar |-> Cross, Uptime |-> Dash, UptimeRaw |-> JNum(0),
   EcoMode |-> Dash, WiFi |-> Dash, Bluetooth |-> Dash, MQTT |-> Dash,
   DebugUDP |-> Dash, Skripte |-> Dash]

\* the assignments after the six calls; a script entry without "name" raises
\* KeyError, which leaves the row as filled so far
ExtractRow(row, sysconf, sysstatus, wifi, ble, scripts, mqtt) ==
  LET filled ==
        [row EXCEPT
           !.Erreichbar = Check,
           !.EcoMode    = Get(Get(sysconf, "device", <<>>), "eco_mode", NotAvailable),
           !.DebugUDP   = Get(Get(Get(sysconf, "debug", <<>>), "udp", <<>>), "addr", Dash),
           !.Uptime     = format_uptime(Get(sysstatus, "uptime", JNum(0))),
           !.UptimeRaw  = Get(sysstatus, "uptime", JNum(0)),
           !.WiFi       = Get(wifi, "rssi", Question),
           !.Bluetooth  = IF Truthy(Get(ble, "enable", JBool(FALSE))) THEN Check ELSE Cross,
           !.MQTT       = IF Truthy(Get(mqtt, "enable", JBool(FALSE))) THEN Check ELSE Cross]
      entries == Get(scripts, "scripts", <<>>)
  IN  IF \E k \in 1..Len(entries) : "name" \notin DOMAIN entries[k]
      THEN filled
      ELSE [filled EXCEPT
              !.Skripte = IF entries = <<>> THEN Dash
                          ELSE [t |-> "join", names |-> [k \in 1..Len(entries) |-> entries[k].name]]]

\* variant: `continue` in the except clause, the row of a failed device is dropped
StatusBodySkipFailed(r, ip, dev) ==
  LET resp    == << dev.sysconf, dev.sysstatus, dev.wifi, dev.ble, dev.scripts, dev.mqtt >>
      raising == { k \in 1..6 : JsonRaises(resp[k]) }
      issued  == IF raising = {} THEN 6
                 ELSE CHOOSE k \in raising : \A j \in raising : k <= j
      log     == [k \in 1..issued |-> Called(ip, StatusEndpoints[k], resp[k])]
      row     == IF raising # {} THEN InitialRow(ip)
                 ELSE ExtractRow(InitialRow(ip), resp[1].body.doc, resp[2].body.doc,
                                 resp[3].body.doc, resp[4].body.doc, resp[5].body.doc,
                                 resp[6].body.doc)
  IN  IF raising # {} THEN [r EXCEPT !.calls = @ \o log]
      ELSE [r EXCEPT !.table_data = Append(@, row), !.calls = @ \o log]

\* variant: no except clause, a failing call ends the script
StatusBodyUncaught(r, ip, dev) ==
  LET resp    == << dev.sysconf, dev.sysstatus, dev.wifi, dev.ble, dev.scripts, dev.mqtt >>
      raising == { k \in 1..6 : JsonRaises(resp[k]) }
      issued  == IF raising = {} THEN 6
                 ELSE CHOOSE k \in raising : \A j \in raising : k <= j
      log     == [k \in 1..issued |-> Called(ip, StatusEndpoints[k], resp[k])]
      row     == IF raising # {} THEN InitialRow(ip)
                 ELSE ExtractRow(InitialRow(ip), resp[1].body.doc, resp[2].body.doc,
                                 resp[3].body.doc, resp[4].body.doc, resp[5].body.doc,
                                 resp[6].body.doc)
  IN  IF raising # {} THEN Crash([r EXCEPT !.calls = @ \o log])
      ELSE [r EXCEPT !.table_data = Append(@, row), !.calls = @ \o log]

\* body of `for ip in shelly_ips`
StatusBody(r, ip, dev) ==
  LET resp    == << dev.sysconf, dev.sysstatus, dev.wifi, dev.ble, dev.scripts, dev.mqtt >>
      raising == { k \in 1..6 : JsonRaises(resp[k]) }
      issued  == IF raising = {} THEN 6
                 ELSE CHOOSE k \in raising : \A j \in raising : k <= j
      log     == [k \in 1..issued |-> Called(ip, StatusEndpoints[k], resp[k])]
      row     == IF raising # {} THEN InitialRow(ip)
                 ELSE ExtractRow(InitialRow(ip), resp[1].body.doc, resp[2].body.doc,
                                 resp[3].body.doc, resp[4].body.doc, resp[5].body.doc,
                                 resp[6].body.doc)
  IN  [r EXCEPT !.table_data = Append(@, row), !.calls = @ \o log]

\* float(x) raises ValueError / TypeError
FloatRaises(v) == v.t \notin {"num", "bool"}

\* float(x), in tenths
Float(v) == IF v.t = "bool" THEN (IF v.b THEN 10 ELSE 0) ELSE v.x

\* Python's order on str, on sequences of character codes
LexLess(a, b) ==
  \E k \in 1..(Len(a) + 1) :
     /\ \A j \in 1..(k - 1) : j <= Len(b) /\ a[j] = b[j]
     /\ k <= Len(b)
     /\ (k > Len(a) \/ a[k] < b[k])

\* list.sort: the indices 1..n in sorted order, where before[a, b] says that the
\* element at index a has to come before the one at index b; elements that
\* compare equal keep their order, also under reverse=True
StableSort(n, before) ==
  LET Insert(s, k) ==
        LET later == { p \in 1..Len(s) : before[k, s[p]] }
            pos   == IF later = {} THEN Len(s) + 1
                     ELSE CHOOSE p \in later : \A q \in later : p <= q
        IN  SubSeq(s, 1, pos - 1) \o <<k>> \o SubSeq(s, pos, Len(s))
      ins[k \in 0..n] == IF k = 0 THEN <<>> ELSE Insert(ins[k - 1], k)
  IN  ins[n]

\* the key function of the selected sort raises
SortRaises(table, key) ==
  key = "uptime" /\ \E k \in 1..Len(table) : FloatRaises(table[k].UptimeRaw)

\* the order the sort logic puts the rows in
SortOrder(table, key) ==
  LET n == Len(table)
  IN  CASE key = "uptime" ->
             StableSort(n, [a \in 1..n, b \in 1..n |->
                              Float(table[a].UptimeRaw) > Float(table[b].UptimeRaw)])
        [] key = "wifi" ->
             StableSort(n, [a \in 1..n, b \in 1..n |->
                              parse_rssi(table[a].WiFi) > parse_rssi(table[b].WiFi)])
        [] OTHER ->
             StableSort(n, [a \in 1..n, b \in 1..n |-> LexLess(table[a].IP, table[b].IP)])

Headers ==
  { "IP", "Erreichbar", "Uptime", "EcoMode", "WiFi", "Bluetooth", "MQTT", "DebugUDP", "Skripte" }

\* rows = [[row[h] for h in headers] for row in table_data]
Rows(table) == [k \in 1..Len(table) |-> [h \in Headers |-> table[k][h]]]

(***************************************************************************)
(* The state machine                                                       *)
(***************************************************************************)
DevicesOf(s, StatusDevices) ==
  CASE s = "restart" -> RestartDevices
    [] s = "debug"   -> DebugDevices
    [] s = "mqtt"    -> MqttDevices
    [] OTHER         -> StatusDevices

InitWith(StatusDevices) ==
  /\ script \in Scripts
  /\ file \in {"ok", "missing", "denied"}
  /\ lines \in (IF file = "ok" THEN SeqsUpTo(Hosts \cup {Blank}, MaxLines) ELSE { <<>> })
  /\ fleet \in [Hosts -> DevicesOf(script, StatusDevices)]
  /\ fault \in Hosts
  /\ sort \in (IF script = "status" THEN SortKeys ELSE {"ip"})
  /\ hosts = <<>>
  /\ i = 1
  /\ run = NewRun
  /\ runF = NewRun
  /\ runO = NewRun
  /\ perm = <<>>

Init == InitWith(FacetDevices)

InitSort == InitWith(SortDevices)

\* the same device with the first call of the script failing at transport level
Faulted(dev) ==
  CASE script = "restart" -> [dev EXCEPT !.reboot = Transport]
    [] script = "debug"   -> [dev EXCEPT !.setconfig = Transport]
    [] script = "mqtt"    -> [dev EXCEPT !.mqttset = Transport]
    [] OTHER              -> [dev EXCEPT !.sysconf = Transport]

\* the loop starts in the run and in its two companions
Enter(r) ==
  /\ run' = r
  /\ runF' = r
  /\ runO' = r
  /\ UNCHANGED <<inputs, i, perm>>

\* only the run itself goes on; the companions cover the device loop
Alone(r) ==
  /\ run' = r
  /\ UNCHANGED <<inputs, hosts, i, runF, runO>>

\* the loop body of the running script
LoopBody(r, ip, dev) ==
  CASE script = "restart" -> RestartBody(r, ip, dev)
    [] script = "debug"   -> set_gen2_udp_debug(r, ip, dev)
    [] script = "mqtt"    -> MqttBody(r, ip, dev)
    [] OTHER              -> StatusBody(r, ip, dev)

\* one iteration of the device loop: in the run, in the run over the fleet in
\* which device `fault` does not answer, and in the run whose list omits it
Iterate ==
  /\ run.pc = "loop"
  /\ i <= Len(hosts)
  /\ LET ip == hosts[i]
         dev == fleet[ip]
     IN  /\ run' = LoopBody(run, ip, dev)
         /\ runF' = IF runF.pc # "loop" THEN runF
                    ELSE LoopBody(runF, ip, IF ip = fault THEN Faulted(dev) ELSE dev)
         /\ runO' = IF runO.pc # "loop" \/ ip = fault THEN runO
                    ELSE LoopBody(runO, ip, dev)
  /\ i' = i + 1
  /\ UNCHANGED <<inputs, hosts, perm>>

LoopDone == run.pc = "loop" /\ i > Len(hosts)

RestartReadHosts ==
  /\ script = "restart"
  /\ run.pc = "read"
  /\ hosts' = IF file = "ok" THEN ReadHosts(lines) ELSE <<>>
  /\ IF file # "ok" \/ hosts' = <<>>
     THEN Enter(Exit(run, 1))
     ELSE Enter([run EXCEPT !.pc = "loop"])

RestartDevice == script = "restart" /\ Iterate

RestartSummary ==
  /\ script = "restart"
  /\ LoopDone
  /\ Alone(Exit(run, ExitStatus(run.fail_count)))
  /\ UNCHANGED perm

DebugReadHosts ==
  /\ script = "debug"
  /\ run.pc = "read"
  /\ hosts' = IF file = "ok" THEN ReadHosts(lines) ELSE <<>>
  /\ CASE file = "missing" -> Enter(Exit(run, 0))
       [] file = "denied"  -> Enter(Crash(run))
       [] OTHER            -> Enter([run EXCEPT !.pc = "loop"])

DebugDevice == script = "debug" /\ Iterate

DebugReturn ==
  /\ script = "debug"
  /\ LoopDone
  /\ Alone(Exit(run, 0))
  /\ UNCHANGED perm

MqttReadHosts ==
  /\ script = "mqtt"
  /\ run.pc = "read"
  /\ hosts' = IF file = "ok" THEN ReadHosts(lines) ELSE <<>>
  /\ IF file # "ok" THEN Enter(Crash(run)) ELSE Enter([run EXCEPT !.pc = "loop"])

MqttDevice == script = "mqtt" /\ Iterate

MqttEnd ==
  /\ script = "mqtt"
  /\ LoopDone
  /\ Alone(Exit(run, 0))
  /\ UNCHANGED perm

StatusReadHosts ==
  /\ script = "status"
  /\ run.pc = "read"
  /\ hosts' = IF file = "ok" THEN ReadHosts(lines) ELSE <<>>
  /\ IF file # "ok" THEN Enter(Crash(run)) ELSE Enter([run EXCEPT !.pc = "loop"])

StatusDevice == script = "status" /\ Iterate

StatusSort ==
  /\ script = "status"
  /\ LoopDone
  /\ IF SortRaises(run.table_data, sort)
     THEN Alone(Crash(run)) /\ UNCHANGED perm
     ELSE /\ perm' = SortOrder(run.table_data, sort)
          /\ Alone([run EXCEPT !.pc = "print",
                               !.table_data = [k \in 1..Len(@) |-> @[perm'[k]]]])

StatusPrint ==
  /\ script = "status"
  /\ run.pc = "print"
  /\ Alone(Exit([run EXCEPT !.out = Rows(run.table_data)], 0))
  /\ UNCHANGED perm

Next ==
  \/ RestartReadHosts
  \/ RestartDevice
  \/ RestartSummary
  \/ DebugReadHosts
  \/ DebugDevice
  \/ DebugReturn
  \/ MqttReadHosts
  \/ MqttDevice
  \/ MqttEnd
  \/ StatusReadHosts
  \/ StatusDevice
  \/ StatusSort
  \/ StatusPrint

Spec == Init /\ [][Next]_vars

SpecSort == InitSort /\ [][Next]_vars

TypeOK ==
  /\ run.pc \in {"read", "loop", "print", "exit", "crashed"}
  /\ run.exit_code \in {-1, 0, 1, 2}
  /\ i \in 1..(Len(hosts) + 1)

(***************************************************************************)
(* Vocabulary of the properties                                            *)
(***************************************************************************)
\* the addresses of the list file: its lines that are not blank
AddressList == SelectSeq(lines, LAMBDA l : Len(l) > 0)

ListUsable == file = "ok" /\ AddressList # <<>>

Reachable(row) == row.Erreichbar = Check

Succeeded(resp) == Outcome(resp) = "ok"

\* the calls of the log that went to `ep`
CallsTo(log, ep) == SelectSeq(log, LAMBDA c : c.ep = ep)

IsPermutation(p, n) == Len(p) = n /\ \A k \in 1..n : \E j \in 1..n : p[j] = k

\* the device loop is over and all of its results are collected
Collected == run.pc = "loop" /\ i > Len(hosts)

(***************************************************************************)
(* C1: every address of the list yields exactly one result.  The status    *)
(* check has one row per address, in list order, after each iteration and  *)
(* when the loop ends (the report is a rearrangement of them); the restart *)
(* counts each host in exactly one of success_count and fail_count, so the *)
(* two add up to the number of addresses when the summary is printed.      *)
(***************************************************************************)
C1_OneResultPerAddress ==
  /\ (script = "status" /\ run.pc = "loop") =>
        /\ Len(run.table_data) = i - 1
        /\ \A k \in 1..(i - 1) : run.table_data[k].IP = AddressList[k]
  /\ (script = "status" /\ (Collected \/ run.pc = "print" \/ (file = "ok" /\ Terminated(run)))) =>
        /\ Len(run.table_data) = Len(AddressList)
        /\ \A a \in Hosts :
              Cardinality({ k \in 1..Len(run.table_data) : run.table_data[k].IP = a })
                = Cardinality({ k \in 1..Len(AddressList) : AddressList[k] = a })
  /\ (script = "restart" /\ run.pc = "loop") =>
        /\ run.success_count + run.fail_count = i - 1
        /\ run.success_count =
             Cardinality({ k \in 1..(i - 1) : Succeeded(fleet[AddressList[k]].reboot) })
  /\ (script = "restart" /\ run.pc = "exit" /\ run.exit_code # 1) =>
        /\ run.success_count + run.fail_count = Len(AddressList)
        /\ Len(run.out) = Len(AddressList)

C1_Witness ==
  /\ script = "status"
  /\ Collected
  /\ Len(AddressList) >= 2
  /\ Len(lines) > Len(AddressList)
  /\ \E k \in 1..Len(run.table_data) : Reachable(run.table_data[k])
  /\ \E k \in 1..Len(run.table_data) : ~Reachable(run.table_data[k])

(***************************************************************************)
(* C2: the restart ends with status 0 iff the list is usable and every     *)
(* reboot call succeeded, with 2 iff it is usable and a reboot call        *)
(* failed, with 1 iff the file is unreadable or holds no address, and in   *)
(* that last case no call has been issued.                                 *)
(***************************************************************************)
C2_RestartExitStatus ==
  (script = "restart" /\ Terminated(run)) =>
     /\ run.pc = "exit"
     /\ run.exit_code = 0 <=>
          (ListUsable /\ \A k \in 1..Len(AddressList) : Succeeded(fleet[AddressList[k]].reboot))
     /\ run.exit_code = 2 <=>
          (ListUsable /\ \E k \in 1..Len(AddressList) : ~Succeeded(fleet[AddressList[k]].reboot))
     /\ run.exit_code = 1 <=> ~ListUsable
     /\ run.exit_code = 1 => run.calls = <<>>

C2_Witness ==
  /\ script = "restart"
  /\ Terminated(run)
  /\ run.exit_code = 2
  /\ run.success_count > 0
  /\ run.fail_count = 1

(***************************************************************************)
(* C3: the debug setter and the MQTT push end with status 0 when every     *)
(* config call succeeded, 2 when one failed, and 1 (before any call) when  *)
(* the list file is unreadable or holds no address.                        *)
(***************************************************************************)
C3_PushConfigExitStatus ==
  (script \in {"debug", "mqtt"} /\ Terminated(run)) =>
     LET answer(a) == IF script = "debug" THEN fleet[a].setconfig ELSE fleet[a].mqttset
     IN  /\ run.exit_code = 0 <=>
              (ListUsable /\ \A k \in 1..Len(AddressList) : Succeeded(answer(AddressList[k])))
         /\ run.exit_code = 2 <=>
              (ListUsable /\ \E k \in 1..Len(AddressList) : ~Succeeded(answer(AddressList[k])))
         /\ run.exit_code = 1 <=> ~ListUsable
         /\ run.exit_code = 1 => run.calls = <<>>

(***************************************************************************)
(* C4: a row of the status check is marked reachable iff the device's      *)
(* system-config call and its system-status call both succeeded, whatever  *)
(* the other four calls did.                                               *)
(***************************************************************************)
C4_ReachableIffSystemCalls ==
  (script = "status" /\ run.pc = "loop") =>
     \A k \in 1..Len(run.table_data) :
        Reachable(run.table_data[k]) <=>
          (Succeeded(fleet[hosts[k]].sysconf) /\ Succeeded(fleet[hosts[k]].sysstatus))

(***************************************************************************)
(* C5: when the wifi-status call of a device fails while its system-config *)
(* and system-status calls succeed, the row still carries the uptime and   *)
(* eco mode of the succeeding calls, its signal strength is a fallback     *)
(* sentinel, and the three calls after the wifi call are still issued.     *)
(***************************************************************************)
C5_FacetsIndependent ==
  (script = "status" /\ run.pc = "loop") =>
     \A k \in 1..Len(run.table_data) :
        LET dev == fleet[hosts[k]]
            row == run.table_data[k]
        IN  (Succeeded(dev.sysconf) /\ Succeeded(dev.sysstatus) /\ ~Succeeded(dev.wifi)) =>
               /\ row.Uptime = format_uptime(dev.sysstatus.body.doc.uptime)
               /\ row.UptimeRaw = dev.sysstatus.body.doc.uptime
               /\ row.EcoMode = dev.sysconf.body.doc.device.eco_mode
               /\ row.WiFi \in {Dash, Question}
               /\ \A ep \in {"BLE.GetConfig", "Script.List", "MQTT.GetConfig"} :
                     \E c \in 1..Len(run.calls) :
                        run.calls[c].host = hosts[k] /\ run.calls[c].ep = ep

(***************************************************************************)
(* C6: a call answered with a non-2xx status is never treated as a         *)
(* success: the restart and the debug setter print the host as failed, the *)
(* MQTT push chains no reboot after it, and the status check does not mark *)
(* the device reachable.                                                   *)
(***************************************************************************)
C6_HttpErrorNeverSuccess ==
  /\ script = "restart" =>
        \A k \in 1..Len(run.calls) :
           run.calls[k].res = "http" => run.out[k].tag = "[FAIL]"
  /\ script = "debug" =>
        \A k \in 1..Len(run.calls) :
           run.calls[k].res = "http" => run.out[k].tag # "[v]"
  /\ script = "mqtt" =>
        \A k \in 1..Len(run.calls) :
           (run.calls[k].ep = "MQTT.SetConfig" /\ run.calls[k].res = "http") =>
              (k = Len(run.calls) \/ run.calls[k + 1].ep # "Shelly.Reboot")
  /\ (script = "status" /\ run.pc = "loop") =>
        \A k \in 1..Len(run.table_data) :
           (\E c \in 1..Len(run.calls) :
               run.calls[c].host = hosts[k] /\ run.calls[c].res = "http")
             => ~Reachable(run.table_data[k])

(***************************************************************************)
(* What the sort logic establishes: the report is a rearrangement of the   *)
(* collected rows, non-increasing in the key the code sorts by (float of   *)
(* the raw uptime, parse_rssi of the WiFi column), resp. non-decreasing in *)
(* the address, and rows with equal keys keep their input order.           *)
(***************************************************************************)
SortLogicOrdersByKey ==
  [][(script = "status" /\ run.pc = "loop" /\ run'.pc = "print") =>
       LET n == Len(run.table_data)
           t == run'.table_data
       IN  /\ IsPermutation(perm', n)
           /\ Len(t) = n
           /\ \A k \in 1..n : t[k] = run.table_data[perm'[k]]
           /\ \A k \in 1..(n - 1) :
                 CASE sort = "uptime" ->
                        \/ Float(t[k].UptimeRaw) > Float(t[k + 1].UptimeRaw)
                        \/ /\ Float(t[k].UptimeRaw) = Float(t[k + 1].UptimeRaw)
                           /\ perm'[k] < perm'[k + 1]
                   [] sort = "wifi" ->
                        \/ parse_rssi(t[k].WiFi) > parse_rssi(t[k + 1].WiFi)
                        \/ /\ parse_rssi(t[k].WiFi) = parse_rssi(t[k + 1].WiFi)
                           /\ perm'[k] < perm'[k + 1]
                   [] OTHER ->
                        \/ LexLess(t[k].IP, t[k + 1].IP)
                        \/ t[k].IP = t[k + 1].IP /\ perm'[k] < perm'[k + 1]]_vars

\* the signal strength of a row; a failed or non-numeric value ranks lowest
Strength(row) == IF row.WiFi.t = "num" THEN row.WiFi.x ELSE NegInf

(***************************************************************************)
(* C7: the report is a rearrangement of the collected rows in which, for   *)
(* sort key uptime (resp. wifi), every adjacent pair has non-increasing    *)
(* uptime (resp. signal strength, failed or non-numeric values lowest),    *)
(* rows with equal keys keep their input order, and for sort key ip the    *)
(* addresses are lexicographically non-decreasing.                         *)
(***************************************************************************)
C7_ReportOrdered ==
  [][(script = "status" /\ run.pc = "loop" /\ run'.pc = "print") =>
       LET n == Len(run.table_data)
           t == run'.table_data
       IN  /\ IsPermutation(perm', n)
           /\ Len(t) = n
           /\ \A k \in 1..n : t[k] = run.table_data[perm'[k]]
           /\ \A k \in 1..(n - 1) :
                 CASE sort = "uptime" ->
                        \/ t[k].UptimeRaw.x > t[k + 1].UptimeRaw.x
                        \/ /\ t[k].UptimeRaw.x = t[k + 1].UptimeRaw.x
                           /\ perm'[k] < perm'[k + 1]
                   [] sort = "wifi" ->
                        \/ Strength(t[k]) > Strength(t[k + 1])
                        \/ /\ Strength(t[k]) = Strength(t[k + 1])
                           /\ perm'[k] < perm'[k + 1]
                   [] OTHER ->
                        ~LexLess(t[k + 1].IP, t[k].IP)]_vars

(***************************************************************************)
(* C8: partial-failure isolation.  Next to the run over the fleet, runF is *)
(* the run over the same fleet in which device `fault` does not answer its *)
(* first call, and runO the run whose list omits that device.  In runF the *)
(* result of `fault` is unreachable (failed), the result of every other    *)
(* device is the one of the run and of runO, and the loop is never stopped.*)
(***************************************************************************)
C8_FailureIsolated ==
  /\ (script = "status" /\ run.pc = "loop") =>
        /\ runF.pc = "loop"
        /\ runO.pc = "loop"
        /\ Len(runF.table_data) = i - 1
        /\ \A k \in 1..(i - 1) :
              IF hosts[k] = fault
              THEN runF.table_data[k].IP = fault /\ ~Reachable(runF.table_data[k])
              ELSE runF.table_data[k] = run.table_data[k]
        /\ runO.table_data = SelectSeq(runF.table_data, LAMBDA row : row.IP # fault)
  /\ (script = "restart" /\ run.pc = "loop") =>
        /\ runF.pc = "loop"
        /\ runO.pc = "loop"
        /\ Len(runF.out) = i - 1
        /\ runF.success_count + runF.fail_count = i - 1
        /\ \A k \in 1..(i - 1) :
              IF hosts[k] = fault
              THEN runF.out[k] = Printed(fault, "[FAIL]")
              ELSE runF.out[k] = run.out[k]
        /\ runO.out = SelectSeq(runF.out, LAMBDA line : line.host # fault)
        /\ runO.success_count = runF.success_count

C8_Witness ==
  /\ script = "status"
  /\ Collected
  /\ \E k \in 1..Len(hosts) :
        /\ hosts[k] = fault
        /\ \A j \in 1..Len(hosts) : hosts[j] = fault => j = k
        /\ Reachable(run.table_data[k])
        /\ ~Reachable(runF.table_data[k])
        /\ \E j \in (k + 1)..Len(hosts) : Reachable(runF.table_data[j])
        /\ \A j \in 1..Len(hosts) : j # k => Succeeded(fleet[hosts[j]].sysconf)

(***************************************************************************)
(* C9: in the MQTT push a reboot call directly follows the successful      *)
(* config-set call of the same host, so it comes before the next host's    *)
(* config-set call and at most once per list entry; a host whose           *)
(* config-set call failed gets no reboot call; and a failed reboot call    *)
(* does not keep the loop from sending the config to the remaining hosts.  *)
(***************************************************************************)
C9_RebootFollowsConfig ==
  script = "mqtt" =>
     LET configs == CallsTo(run.calls, "MQTT.SetConfig")
     IN  /\ \A k \in 1..Len(run.calls) :
               run.calls[k].ep = "Shelly.Reboot" =>
                  /\ k > 1
                  /\ run.calls[k - 1] =
                       [host |-> run.calls[k].host, ep |-> "MQTT.SetConfig", res |-> "ok"]
         /\ \A a \in Hosts :
               Cardinality({ k \in 1..Len(run.calls) :
                               run.calls[k].ep = "Shelly.Reboot" /\ run.calls[k].host = a })
                 <= Cardinality({ k \in 1..Len(AddressList) : AddressList[k] = a })
         /\ \A a \in Hosts :
               ~Succeeded(fleet[a].mqttset) =>
                  \A k \in 1..Len(run.calls) :
                     ~(run.calls[k].ep = "Shelly.Reboot" /\ run.calls[k].host = a)
         /\ run.pc = "loop" =>
               /\ Len(configs) = i - 1
               /\ \A k \in 1..(i - 1) : configs[k].host = hosts[k]
         /\ (file = "ok" /\ Terminated(run)) =>
               /\ run.pc = "exit"
               /\ Len(configs) = Len(AddressList)

C9_Witness ==
  /\ script = "mqtt"
  /\ Terminated(run)
  /\ \E k \in 1..(Len(run.calls) - 1) :
        /\ run.calls[k].ep = "Shelly.Reboot"
        /\ run.calls[k].res # "ok"
        /\ run.calls[k + 1].ep = "MQTT.SetConfig"
  /\ \E k \in 1..Len(run.calls) :
        run.calls[k].ep = "MQTT.SetConfig" /\ run.calls[k].res # "ok"

(***************************************************************************)
(* C10: once the device loop of the status check has finished, sorting and *)
(* rendering complete without raising, for every sort key and every        *)
(* content of the rows.                                                    *)
(***************************************************************************)
C10_ReportNeverRaises ==
  (script = "status" /\ file = "ok") => run.pc # "crashed"

====
